---- MODULE Spec2Model ----
(***************************************************************************)
(* Comrade Stocks (src/app.py): a Streamlit script that values stock       *)
(* positions (calc_metrics, auto_review_text) and keeps them in a          *)
(* PositionStore (local portfolio.csv or a remote Supabase table).         *)
(*                                                                         *)
(* Two specifications:                                                     *)
(*   EngineSpec  the pure valuation functions applied to bounded inputs;   *)
(*   Spec        the script runs triggered by the user's widget events.    *)
(***************************************************************************)
EXTENDS Integers, Sequences, FiniteSets, TLC

\* ------------------------------------------------------------------ bounds
MaxHist == 2        \* longest price history, in samples
MaxRows == 2        \* most rows a store holds (guards the import)

\* ---------------------------------------------------------- float numbers
\* A Python/numpy float is modelled as an exact fraction n/d (d > 0, lowest
\* terms).  d = 0 encodes the IEEE specials numpy produces on a division by
\* zero: 1/0 = inf, -1/0 = -inf, 0/0 = nan.  d = -1 encodes "the expression
\* raised ZeroDivisionError" (Python float division).  Binary rounding of
\* the 53-bit mantissa is not modelled; the entry prices, amounts and closes
\* of EngineSpec are chosen so that every result of calc_metrics is an
\* exactly representable double.
Abs(x) == IF x < 0 THEN -x ELSE x

Sign(x) == IF x > 0 THEN 1 ELSE IF x < 0 THEN -1 ELSE 0

RECURSIVE GCD(_, _)
GCD(a, b) == IF b = 0 THEN a ELSE GCD(b, a % b)

Rat(n, d) ==
    IF d = 0 THEN [n |-> Sign(n), d |-> 0]
    ELSE LET g == GCD(Abs(n), Abs(d))
             s == Sign(d)
         IN  [n |-> (s * n) \div g, d |-> (s * d) \div g]

FromInt(k) == [n |-> k, d |-> 1]

Inf == [n |-> 1, d |-> 0]

NaN == [n |-> 0, d |-> 0]

Raised == [n |-> 0, d |-> -1]

IsFinite(x) == x.d > 0

IsNaN(x) == x = NaN

\* float + - * on finite operands; a raised operand propagates
RAdd(x, y) ==
    IF x = Raised \/ y = Raised THEN Raised
    ELSE LET g == GCD(x.d, y.d)
         IN  Rat(x.n * (y.d \div g) + y.n * (x.d \div g), (x.d \div g) * y.d)

RSub(x, y) == RAdd(x, [n |-> -y.n, d |-> y.d])

RMul(x, y) ==
    IF x = Raised \/ y = Raised THEN Raised
    ELSE IF x.d = 0 \/ y.d = 0
         THEN (IF IsNaN(x) \/ IsNaN(y) \/ x.n = 0 \/ y.n = 0
               THEN NaN ELSE [n |-> Sign(x.n) * Sign(y.n), d |-> 0])
         ELSE Rat(x.n * y.n, x.d * y.d)

\* Python float division: a zero divisor raises ZeroDivisionError
PyDiv(x, y) ==
    IF x = Raised \/ y = Raised \/ y.n = 0 THEN Raised
    ELSE Rat(x.n * y.d, x.d * y.n)

\* numpy float64 division: a zero divisor gives inf, -inf or nan
NpDiv(x, y) ==
    IF y.n = 0 THEN [n |-> Sign(x.n), d |-> 0]
    ELSE Rat(x.n * y.d, x.d * y.n)

\* IEEE comparisons against an integer constant; nan compares false
GtInt(x, k) == IF x.d = 0 THEN x.n > 0 ELSE x.n > k * x.d

LtInt(x, k) == IF x.d = 0 THEN x.n < 0 ELSE x.n < k * x.d

GeInt(x, k) == IF x.d = 0 THEN x.n > 0 ELSE x.n >= k * x.d

\* IEEE x <= y; nan compares false
RLeq(x, y) ==
    IF IsNaN(x) \/ IsNaN(y) THEN FALSE
    ELSE IF x.d = 0 /\ y.d = 0 THEN x.n <= y.n
    ELSE IF x.d = 0 THEN x.n < 0
    ELSE IF y.d = 0 THEN y.n > 0
    ELSE x.n * y.d <= y.n * x.d

\* ------------------------------------------------------------ calc_metrics
NoMetrics ==
    [called |-> FALSE, raised |-> FALSE, current_price |-> FromInt(0),
     shares |-> FromInt(0), current_value |-> FromInt(0),
     profit |-> FromInt(0), roi |-> FromInt(0)]

Last(s) == s[Len(s)]

calc_metrics_noguard(hist, invested_price, invested_amount) ==
    LET current_price == Last(hist)
        shares        == PyDiv(invested_amount, invested_price)
        current_value == RMul(shares, current_price)
        profit        == RSub(current_value, invested_amount)
        roi           == RMul(PyDiv(profit, invested_amount), FromInt(100))
    IN  IF shares = Raised \/ roi = Raised
        THEN [NoMetrics EXCEPT !.called = TRUE, !.raised = TRUE]
        ELSE [called |-> TRUE, raised |-> FALSE, current_price |-> current_price,
              shares |-> shares, current_value |-> current_value,
              profit |-> profit, roi |-> roi]

calc_metrics_nosub(hist, invested_price, invested_amount) ==
    LET current_price == Last(hist)
        shares        == IF invested_price.n # 0
                         THEN PyDiv(invested_amount, invested_price)
                         ELSE FromInt(0)
        current_value == RMul(shares, current_price)
        profit        == current_value
        roi           == IF invested_amount.n # 0
                         THEN RMul(PyDiv(profit, invested_amount), FromInt(100))
                         ELSE FromInt(0)
    IN  [called |-> TRUE, raised |-> FALSE, current_price |-> current_price,
         shares |-> shares, current_value |-> current_value,
         profit |-> profit, roi |-> roi]

calc_metrics(hist, invested_price, invested_amount) ==
    LET current_price == Last(hist)
        shares        == IF invested_price.n # 0
                         THEN PyDiv(invested_amount, invested_price)
                         ELSE FromInt(0)
        current_value == RMul(shares, current_price)
        profit        == RSub(current_value, invested_amount)
        roi           == IF invested_amount.n # 0
                         THEN RMul(PyDiv(profit, invested_amount), FromInt(100))
                         ELSE FromInt(0)
    IN  IF shares = Raised \/ roi = Raised
        THEN [NoMetrics EXCEPT !.called = TRUE, !.raised = TRUE]
        ELSE [called |-> TRUE, raised |-> FALSE, current_price |-> current_price,
              shares |-> shares, current_value |-> current_value,
              profit |-> profit, roi |-> roi]

\* -------------------------------------------------------- auto_review_text
\* pct = (end - start) / start * 100 on numpy floats
PeriodChange(hist) ==
    RMul(NpDiv(RSub(Last(hist), hist[1]), hist[1]), FromInt(100))

\* hist["close"].pct_change(): element i (i >= 2) is close[i]/close[i-1] - 1;
\* the first element is nan.  Returned without the leading nan.
PctChange(hist) ==
    [i \in 1..(Len(hist) - 1) |->
        LET q == NpDiv(hist[i + 1], hist[i])
        IN  IF q.d = 0 THEN q ELSE RSub(q, FromInt(1))]

RECURSIVE RSum(_)
RSum(s) == IF s = <<>> THEN FromInt(0) ELSE RAdd(s[1], RSum(Tail(s)))

SelectNotNaN(s) == SelectSeq(s, LAMBDA x : ~IsNaN(x))

\* Series.std() * 100 > 2: nan values are skipped, ddof = 1; fewer than two
\* values, or an inf among them, give nan, and nan > 2 is false.
\* For a finite variance v = n/d, sqrt(v) * 100 > 2 iff 2500 * n > d.
VolIsHigh(hist) ==
    LET xs == SelectNotNaN(PctChange(hist))
        n  == Len(xs)
    IN  IF n < 2 \/ \E i \in 1..n : ~IsFinite(xs[i]) THEN FALSE
        ELSE LET mean == PyDiv(RSum(xs), FromInt(n))
                 sq   == [i \in 1..n |-> RMul(RSub(xs[i], mean), RSub(xs[i], mean))]
                 var  == PyDiv(RSum(sq), FromInt(n - 1))
             IN  var.n > var.d \div 2500

TrendOf_swapped(pct) ==
    IF GtInt(pct, 2) THEN "alta"
    ELSE IF GtInt(pct, 8) THEN "forte alta"
    ELSE IF LtInt(pct, -8) THEN "forte queda"
    ELSE IF LtInt(pct, -2) THEN "queda"
    ELSE "estável"

TrendOf(pct) ==
    IF GtInt(pct, 8) THEN "forte alta"
    ELSE IF GtInt(pct, 2) THEN "alta"
    ELSE IF LtInt(pct, -8) THEN "forte queda"
    ELSE IF LtInt(pct, -2) THEN "queda"
    ELSE "estável"

ScoreOf_strict(roi) ==
    IF GtInt(roi, 30) THEN 10
    ELSE IF GeInt(roi, 15) THEN 9
    ELSE IF GeInt(roi, 10) THEN 8
    ELSE IF GeInt(roi, 5) THEN 7
    ELSE IF GeInt(roi, 0) THEN 6
    ELSE IF GeInt(roi, -5) THEN 5
    ELSE IF GeInt(roi, -10) THEN 4
    ELSE IF GeInt(roi, -20) THEN 3
    ELSE 1

ScoreOf(roi) ==
    IF GeInt(roi, 30) THEN 10
    ELSE IF GeInt(roi, 15) THEN 9
    ELSE IF GeInt(roi, 10) THEN 8
    ELSE IF GeInt(roi, 5) THEN 7
    ELSE IF GeInt(roi, 0) THEN 6
    ELSE IF GeInt(roi, -5) THEN 5
    ELSE IF GeInt(roi, -10) THEN 4
    ELSE IF GeInt(roi, -20) THEN 3
    ELSE 1

\* f"{pct:.2f}": hundredths, rounded half to even; "inf" / "nan" otherwise
Fmt2(x) ==
    IF x.d = 0 THEN [kind |-> IF x.n = 0 THEN "nan" ELSE "inf", cents |-> 0]
    ELSE LET a == Abs(x.n) * 100
             q == a \div x.d
             r == a % x.d
             up == (2 * r > x.d) \/ (2 * r = x.d /\ q % 2 = 1)
         IN  [kind |-> "num", cents |-> Sign(x.n) * (IF up THEN q + 1 ELSE q)]

NoReview ==
    [called |-> FALSE, raised |-> "", pct |-> FromInt(0), trend |-> "",
     vol_text |-> "", pct_text |-> Fmt2(FromInt(0)), score |-> 0]

auto_review_text(hist, roi) ==
    LET pct == PeriodChange(hist)
    IN  [called |-> TRUE, raised |-> "", pct |-> pct, trend |-> TrendOf(pct),
         vol_text |-> IF VolIsHigh(hist) THEN "alta volatilidade"
                      ELSE "baixa volatilidade",
         pct_text |-> Fmt2(pct), score |-> ScoreOf(roi)]

\* ================================================================ the app
VARIABLES
    use_supabase,     \* line 56-77: the remote table is the selected backend
    local_file,       \* portfolio.csv: [exists, rows (CSV text rows)]
    remote_table,     \* Supabase table "portfolio": sequence of inserted rows
    page,             \* sidebar radio
    ticker_input,     \* text typed into the ticker box (before strip/upper)
    invested_price,   \* number_input, in cents
    invested_amount,  \* number_input, in cents
    invest_date,      \* date_input, a day number
    uploaded,         \* file held by the file_uploader widget
    saved_csv,        \* last file the user saved from a download button
    download,         \* CSV attached to the download button of the last run
    add_button,       \* "Adicionar ao portfólio" was rendered by the last run
    cards,            \* Portfólio page: one entry per card rendered by the last run
    engine_calls,     \* calls of calc_metrics / auto_review_text made by the last run
    rerun,            \* st.experimental_rerun() was requested and is pending
    event,            \* what the last script run was triggered by and did
    e_hist, e_price, e_amount,   \* EngineSpec: inputs
    e_metrics, e_roi, e_review   \* EngineSpec: results of the applied functions

appvars == <<use_supabase, local_file, remote_table, page, ticker_input,
             invested_price, invested_amount, invest_date, uploaded, saved_csv,
             download, add_button, cards, engine_calls, rerun, event>>

engvars == <<e_hist, e_price, e_amount, e_metrics, e_roi, e_review>>

vars == <<appvars, engvars>>

Pages == {"Analisar ação", "Portfólio", "Export/Import"}

\* ------------------------------------------------------------- str.upper()
Upper(s) ==
    CASE s = "aapl" -> "AAPL"
      [] s = " aapl " -> " AAPL "
      [] OTHER -> s

\* str.strip()
Strip(s) ==
    CASE s = " aapl " -> "aapl"
      [] s = " AAPL " -> "AAPL"
      [] OTHER -> s

\* ------------------------------------------------------------ CSV <-> rows
\* A data-frame row is [ticker, invest_date (Timestamp, a day number),
\* price, amount (floats, in cents)].  A CSV text row holds the printed
\* cells: the date as "YYYY-MM-DD" (fmt "date") or "YYYY-MM-DD 00:00:00"
\* (fmt "datetime"), a number as sign, whole part and two decimals.
Columns == {"ticker", "invest_date", "price", "amount"}

NoFile == [present |-> FALSE, columns |-> {}, rows |-> <<>>]

FloatToText(c) ==
    [neg |-> c < 0, whole |-> Abs(c) \div 100, frac |-> Abs(c) % 100]

TextToFloat(t) == (IF t.neg THEN -1 ELSE 1) * (t.whole * 100 + t.frac)

\* a datetime64 column of midnights is printed as dates
DateToText(day) == [fmt |-> "date", day |-> day]

\* str(Timestamp)
TimestampStr(day) == [fmt |-> "datetime", day |-> day]

\* parse_dates / pd.to_datetime accept both forms
ParseDate(t) == t.day

RowToText(r) ==
    [ticker |-> r.ticker, invest_date |-> DateToText(r.invest_date),
     price |-> FloatToText(r.price), amount |-> FloatToText(r.amount)]

TextToRow(t) ==
    [ticker |-> t.ticker, invest_date |-> ParseDate(t.invest_date),
     price |-> TextToFloat(t.price), amount |-> TextToFloat(t.amount)]

MapSeq(f(_), s) == [i \in 1..Len(s) |-> f(s[i])]

\* df.to_csv(index=False)
to_csv(df) == [present |-> TRUE, columns |-> Columns, rows |-> MapSeq(RowToText, df)]

df_to_csv_bytes(df) == to_csv(df)

read_csv_skipfirst(csv) ==
    IF csv.rows = <<>> THEN <<>> ELSE MapSeq(TextToRow, Tail(csv.rows))

\* pd.read_csv(f, parse_dates=["invest_date"]) of a file that parses
read_csv(csv) == MapSeq(TextToRow, csv.rows)

local_load_portfolio ==
    IF local_file.exists THEN MapSeq(TextToRow, local_file.rows) ELSE <<>>

local_save_portfolio(df) == [exists |-> TRUE, rows |-> to_csv(df).rows]

\* rows of the remote table as supabase_load_portfolio returns them
TableToRow(t) ==
    [ticker |-> t.ticker, invest_date |-> ParseDate(t.invest_date),
     price |-> t.price, amount |-> t.amount]

\* supabase_load_portfolio: the table's rows, or an empty frame when the
\* request raises
supabase_load_results == {MapSeq(TableToRow, remote_table), <<>>}

\* line 214-219: the frame the run starts from
LoadResults == IF use_supabase THEN supabase_load_results ELSE {local_load_portfolio}

\* the Positions the store holds, as the app reads them
StoreRows == IF use_supabase THEN MapSeq(TableToRow, remote_table) ELSE local_load_portfolio

\* -------------------------------------------------------------- provider
\* yfinance answers with a frame of closes; an empty frame stands for every
\* answer fetch_history turns into None (empty, no close column, exception)
ProviderAnswers == {<<>>, <<100, 110>>}

None == [avail |-> FALSE, close |-> <<>>]

fetch_history(answer) ==
    IF answer = <<>> THEN None ELSE [avail |-> TRUE, close |-> answer]

\* ------------------------------------------------------------ script runs
\* Every widget event re-executes the script from the top.  A button reads
\* True only in the run its click triggered; text, number, date, radio and
\* file widgets keep their value between runs of the page that renders them
\* and are reset when the page stops rendering them.
Ev(op, outcome, idx, rows) == [op |-> op, outcome |-> outcome, idx |-> idx, rows |-> rows]

Call(fn, h) == [fn |-> fn, hist |-> h]

Card(h, shown) == [hist |-> h, shown |-> shown]

AsFloats(h) == [i \in 1..Len(h) |-> FromInt(h[i])]

Ticker == Upper(Strip(ticker_input))

\* line 249: the inputs pass the validation of "Obter dados"
InputsValid == Ticker # "" /\ invested_price > 0 /\ invested_amount > 0

\* line 270-271, with invest_date read back the way the store loads it
InputRow ==
    [ticker |-> Ticker, invest_date |-> invest_date,
     price |-> invested_price, amount |-> invested_amount]

\* line 253-263: the engine calls of the "Analisar ação" page
AnalyseCalls(h) ==
    IF ~h.avail THEN {}
    ELSE {Call("calc_metrics", h), Call("auto_review_text", h)}

\* line 300-307: the engine calls of one iteration of the totals loop
TotalsCalls(h) == IF ~h.avail THEN {} ELSE {Call("calc_metrics", h)}

CardCalls_noguard(h) == {Call("calc_metrics", h), Call("auto_review_text", h)}

\* line 325-336: the engine calls of one card
CardCalls(h) ==
    IF ~h.avail THEN {}
    ELSE {Call("calc_metrics", h), Call("auto_review_text", h)}

\* line 325-338: what one card shows
CardShown(h) == IF ~h.avail THEN "msg" ELSE "valued"

\* a page rendered with no button clicked and nothing to import
Blank ==
    /\ add_button' = FALSE
    /\ cards' = <<>>
    /\ engine_calls' = {}
    /\ download' = NoFile
    /\ rerun' = FALSE

ResetWidgets ==
    /\ ticker_input' = ""
    /\ invested_price' = 0
    /\ invested_amount' = 0
    /\ invest_date' = 1
    /\ uploaded' = NoFile

RemoveAt(s, i) == [j \in 1..(Len(s) - 1) |-> IF j < i THEN s[j] ELSE s[j + 1]]

\* line 121-132: delete().match(...) removes every row equal in all four
\* columns to the card's values
MatchDelete(table, ticker, date, price, amount) ==
    SelectSeq(table, LAMBDA t : ~(/\ t.ticker = ticker
                                  /\ t.invest_date = TimestampStr(date)
                                  /\ t.price = price
                                  /\ t.amount = amount))

\* line 284-360: one run of the "Portfólio" page.  clicked is the index of
\* the "Remover" button whose click triggered the run (0: none); ft and fc
\* are the provider's answers in the totals loop and in the cards loop.
PortfolioRun(op, clicked) ==
    \E df \in LoadResults :
      IF df = <<>>
      THEN /\ Blank
           /\ event' = Ev(op, "empty", clicked, 0)
           /\ UNCHANGED <<local_file, remote_table>>
      ELSE
        \E ft \in [1..Len(df) -> ProviderAnswers], fc \in [1..Len(df) -> ProviderAnswers] :
          LET n       == Len(df)
              ht(i)   == fetch_history(ft[i])
              hc(i)   == fetch_history(fc[i])
              pressed == clicked \in 1..n /\ hc(clicked).avail
              row     == df[clicked]
              tcalls  == UNION {TotalsCalls(ht(i)) : i \in 1..n}
              ccalls(upto) == UNION {CardCalls(hc(i)) : i \in 1..upto}
              allcards(upto) == [i \in 1..upto |-> Card(hc(i), CardShown(hc(i)))]
              complete(outcome) ==
                  /\ cards' = allcards(n)
                  /\ engine_calls' = tcalls \cup ccalls(n)
                  /\ download' = df_to_csv_bytes(df)
                  /\ rerun' = FALSE
                  /\ event' = Ev(op, outcome, clicked, n)
                  /\ UNCHANGED <<local_file, remote_table>>
              stopped ==
                  /\ cards' = allcards(clicked)
                  /\ engine_calls' = tcalls \cup ccalls(clicked)
                  /\ download' = NoFile
                  /\ rerun' = TRUE
                  /\ event' = Ev(op, "deleted", clicked, n)
          IN  /\ add_button' = FALSE
              /\ IF ~pressed
                 THEN complete(IF clicked = 0 THEN "shown" ELSE "not_rendered")
                 ELSE IF use_supabase
                 THEN \/ /\ remote_table' =
                              MatchDelete(remote_table, Upper(Strip(row.ticker)),
                                          row.invest_date, row.price, row.amount)
                         /\ UNCHANGED local_file
                         /\ stopped
                      \/ complete("failed")
                 ELSE /\ local_file' = local_save_portfolio(RemoveAt(df, clicked))
                      /\ UNCHANGED remote_table
                      /\ stopped

\* line 362-389: one run of the "Export/Import" page
ExportImportRun(op, exportar, up) ==
    \E df \in LoadResults :
      /\ add_button' = FALSE
      /\ cards' = <<>>
      /\ engine_calls' = {}
      /\ rerun' = FALSE
      /\ download' = IF exportar THEN df_to_csv_bytes(df) ELSE NoFile
      /\ IF ~up.present
         THEN /\ event' = Ev(op, "no_upload", 0, 0)
              /\ UNCHANGED <<local_file, remote_table>>
         ELSE IF "invest_date" \notin up.columns
         THEN /\ event' = Ev(op, "import_error", 0, 0)
              /\ UNCHANGED <<local_file, remote_table>>
         ELSE IF ~(Columns \subseteq up.columns)
         THEN /\ event' = Ev(op, "bad_columns", 0, 0)
              /\ UNCHANGED <<local_file, remote_table>>
         ELSE LET df_new == read_csv(up)
                  n      == Len(df_new)
              IN  IF use_supabase
                  THEN /\ Len(remote_table) + n <= MaxRows
                       /\ \E ok \in [1..n -> BOOLEAN] :
                            LET ins == [i \in 1..n |->
                                          [ticker |-> Upper(df_new[i].ticker),
                                           invest_date |-> TimestampStr(df_new[i].invest_date),
                                           price |-> df_new[i].price,
                                           amount |-> df_new[i].amount]]
                                idx == SelectSeq([i \in 1..n |-> i], LAMBDA i : ok[i])
                            IN  /\ remote_table' = remote_table \o [k \in 1..Len(idx) |-> ins[idx[k]]]
                                /\ event' = Ev(op, "imported", Len(idx), n)
                       /\ UNCHANGED local_file
                  ELSE /\ Len(df) + n <= MaxRows
                       /\ local_file' = local_save_portfolio(df \o df_new)
                       /\ event' = Ev(op, "imported", n, n)
                       /\ UNCHANGED remote_table

\* line 235-282: one run of the "Analisar ação" page with no button clicked
AnalyseIdleRun(op) ==
    /\ Blank
    /\ event' = Ev(op, "idle", 0, 0)
    /\ UNCHANGED <<local_file, remote_table>>

\* ------------------------------------------------------------ user events
TextRowA ==
    [ticker |-> "AAPL", invest_date |-> [fmt |-> "date", day |-> 1],
     price |-> FloatToText(10000), amount |-> FloatToText(100000)]

TextRowB ==
    [ticker |-> "aapl", invest_date |-> [fmt |-> "datetime", day |-> 2],
     price |-> FloatToText(-150), amount |-> FloatToText(0)]

Csv(rows) == [present |-> TRUE, columns |-> Columns, rows |-> rows]

\* files the user may pick in the uploader, besides a file saved before
UploadFiles ==
    {Csv(<<TextRowA>>), Csv(<<TextRowB>>), Csv(<<TextRowA, TextRowA>>),
     [present |-> TRUE, columns |-> Columns \ {"price"}, rows |-> <<>>],
     [present |-> TRUE, columns |-> Columns \ {"invest_date"}, rows |-> <<>>]}

TickerTexts == {"", " aapl ", "AAPL"}

PriceInputs == {0, 10000}

AmountInputs == {0, 100000}

DateInputs == {1, 2}

RunPage(op, p, up) ==
    CASE p = "Analisar ação" -> AnalyseIdleRun(op)
      [] p = "Portfólio" -> PortfolioRun(op, 0)
      [] p = "Export/Import" -> ExportImportRun(op, FALSE, up)

\* line 233: the sidebar radio
ChangePage(p) ==
    /\ ~rerun
    /\ p # page
    /\ page' = p
    /\ ResetWidgets
    /\ RunPage("page", p, NoFile)
    /\ UNCHANGED <<use_supabase, saved_csv, engvars>>

\* line 239-242: the user edits the inputs of "Analisar ação"
EditInputs(t, p, a, d) ==
    /\ ~rerun
    /\ page = "Analisar ação"
    /\ <<t, p, a, d>> # <<ticker_input, invested_price, invested_amount, invest_date>>
    /\ ticker_input' = t
    /\ invested_price' = p
    /\ invested_amount' = a
    /\ invest_date' = d
    /\ AnalyseIdleRun("edit")
    /\ UNCHANGED <<use_supabase, page, uploaded, saved_csv, engvars>>

\* line 248-266: "Obter dados" clicked
ClickObter ==
    /\ ~rerun
    /\ page = "Analisar ação"
    /\ cards' = <<>>
    /\ download' = NoFile
    /\ rerun' = FALSE
    /\ IF ~InputsValid
       THEN /\ add_button' = FALSE
            /\ engine_calls' = {}
            /\ event' = Ev("obter", "warning", 0, 0)
       ELSE \E answer \in ProviderAnswers :
              LET hist == fetch_history(answer)
              IN  /\ engine_calls' = AnalyseCalls(hist)
                  /\ add_button' = hist.avail
                  /\ event' = Ev("obter", IF hist.avail THEN "analysed" ELSE "no_history", 0, 0)
    /\ UNCHANGED <<use_supabase, local_file, remote_table, page, ticker_input,
                   invested_price, invested_amount, invest_date, uploaded,
                   saved_csv, engvars>>

\* line 248, 269: "Adicionar ao portfólio" clicked.  In the run this click
\* triggers, "Obter dados" reads False, so line 249-282 is not executed.
ClickAdicionar ==
    /\ ~rerun
    /\ page = "Analisar ação"
    /\ add_button
    /\ AnalyseIdleRun("adicionar")
    /\ UNCHANGED <<use_supabase, page, ticker_input, invested_price,
                   invested_amount, invest_date, uploaded, saved_csv, engvars>>

\* line 343: "Remover" of card i clicked
ClickRemover(i) ==
    /\ ~rerun
    /\ page = "Portfólio"
    /\ i \in 1..Len(cards)
    /\ cards[i].shown = "valued"
    /\ PortfolioRun("remover", i)
    /\ UNCHANGED <<use_supabase, page, ticker_input, invested_price,
                   invested_amount, invest_date, uploaded, saved_csv, engvars>>

\* line 350, 357: the run requested by st.experimental_rerun()
Rerun ==
    /\ rerun
    /\ PortfolioRun("rerun", 0)
    /\ UNCHANGED <<use_supabase, page, ticker_input, invested_price,
                   invested_amount, invest_date, uploaded, saved_csv, engvars>>

\* line 360, 366: a download button clicked; the browser saves its data
ClickDownload ==
    /\ ~rerun
    /\ download.present
    /\ saved_csv' = download
    /\ RunPage("download", page, uploaded)
    /\ UNCHANGED <<use_supabase, page, ticker_input, invested_price,
                   invested_amount, invest_date, uploaded, engvars>>

\* line 365-366: "Exportar CSV" clicked
ClickExportar ==
    /\ ~rerun
    /\ page = "Export/Import"
    /\ ExportImportRun("exportar", TRUE, uploaded)
    /\ UNCHANGED <<use_supabase, page, ticker_input, invested_price,
                   invested_amount, invest_date, uploaded, saved_csv, engvars>>

\* line 367-389: a file picked in the uploader
Upload(f) ==
    /\ ~rerun
    /\ page = "Export/Import"
    /\ f.present
    /\ f # uploaded
    /\ uploaded' = f
    /\ ExportImportRun("upload", FALSE, f)
    /\ UNCHANGED <<use_supabase, page, ticker_input, invested_price,
                   invested_amount, invest_date, saved_csv, engvars>>

\* line 367: the file removed from the uploader
RemoveUpload ==
    /\ ~rerun
    /\ page = "Export/Import"
    /\ uploaded.present
    /\ uploaded' = NoFile
    /\ ExportImportRun("remove_upload", FALSE, NoFile)
    /\ UNCHANGED <<use_supabase, page, ticker_input, invested_price,
                   invested_amount, invest_date, saved_csv, engvars>>

EngineIdle ==
    /\ e_hist = <<FromInt(100)>>
    /\ e_price = FromInt(0)
    /\ e_amount = FromInt(0)
    /\ e_metrics = NoMetrics
    /\ e_roi = FromInt(0)
    /\ e_review = NoReview

\* the first run of a session: "Analisar ação" with empty inputs, an absent
\* portfolio.csv or an empty table
AppStart(remote) ==
    /\ use_supabase = remote
    /\ local_file = [exists |-> FALSE, rows |-> <<>>]
    /\ remote_table = <<>>
    /\ page = "Analisar ação"
    /\ ticker_input = ""
    /\ invested_price = 0
    /\ invested_amount = 0
    /\ invest_date = 1
    /\ uploaded = NoFile
    /\ saved_csv = NoFile
    /\ download = NoFile
    /\ add_button = FALSE
    /\ cards = <<>>
    /\ engine_calls = {}
    /\ rerun = FALSE
    /\ event = Ev("start", "idle", 0, 0)

Init == (\E remote \in BOOLEAN : AppStart(remote)) /\ EngineIdle

Next ==
    \/ \E p \in Pages : ChangePage(p)
    \/ \E t \in TickerTexts, p \in PriceInputs, a \in AmountInputs, d \in DateInputs :
         EditInputs(t, p, a, d)
    \/ ClickObter
    \/ ClickAdicionar
    \/ \E i \in 1..MaxRows : ClickRemover(i)
    \/ Rerun
    \/ ClickDownload
    \/ ClickExportar
    \/ \E f \in UploadFiles \cup {saved_csv} : Upload(f)
    \/ RemoveUpload

Spec == Init /\ [][Next]_vars

\* ------------------------------------------------------------- EngineSpec
Closes == {0, 50, 100, 102, 104, 110}

RECURSIVE SeqsUpTo(_, _)
SeqsUpTo(S, n) ==
    IF n = 0 THEN {<<>>}
    ELSE LET shorter == SeqsUpTo(S, n - 1)
         IN  shorter \cup {Append(s, x) : s \in {t \in shorter : Len(t) = n - 1}, x \in S}

\* the non-empty histories fetch_history can return
Histories == {AsFloats(h) : h \in SeqsUpTo(Closes, MaxHist) \ {<<>>}}

EntryPrices == {FromInt(0), FromInt(50), FromInt(100)}

EntryAmounts == {FromInt(0), FromInt(1000)}

RoiArgs ==
    {FromInt(30), Rat(2999, 100), FromInt(15), Rat(1499, 100), FromInt(10),
     FromInt(5), FromInt(0), Rat(-1, 100), FromInt(-5), FromInt(-10),
     Rat(-1001, 100), FromInt(-20), Rat(-2001, 100), FromInt(-50), FromInt(120)}

ApplyCalcMetrics ==
    /\ ~e_metrics.called
    /\ e_metrics' = calc_metrics(e_hist, e_price, e_amount)
    /\ UNCHANGED <<appvars, e_hist, e_price, e_amount, e_roi, e_review>>

\* line 263, 336: auto_review_text applied to the history and a roi
ApplyAutoReview ==
    /\ ~e_review.called
    /\ \E roi \in RoiArgs \cup {e_metrics.roi} :
         /\ e_roi' = roi
         /\ e_review' = auto_review_text(e_hist, roi)
    /\ UNCHANGED <<appvars, e_hist, e_price, e_amount, e_metrics>>

EngineInit ==
    /\ AppStart(FALSE)
    /\ e_hist \in Histories
    /\ e_price \in EntryPrices
    /\ e_amount \in EntryAmounts
    /\ e_metrics = NoMetrics
    /\ e_roi = FromInt(0)
    /\ e_review = NoReview

EngineNext == ApplyCalcMetrics \/ ApplyAutoReview

EngineSpec == EngineInit /\ [][EngineNext]_vars

\* ================================================================= claims
Range(s) == {s[i] : i \in 1..Len(s)}

Count(s, r) == Cardinality({i \in 1..Len(s) : s[i] = r})

SameBag(s, t) == \A r \in Range(s) \cup Range(t) : Count(s, r) = Count(t, r)

ValidPosition(r) == r.ticker # "" /\ Upper(r.ticker) = r.ticker /\ r.price > 0 /\ r.amount > 0

AllValid(s) == \A i \in 1..Len(s) : ValidPosition(s[i])

RowA == TextToRow(TextRowA)

\* C1: when "Adicionar ao portfólio" is clicked (it is only rendered after
\* "Obter dados" with valid inputs and an available history), the run that
\* click triggers appends the Position made of the inputs to the store.
C1_AddAppendsPosition ==
    [][event'.op = "adicionar" => StoreRows' = Append(StoreRows, InputRow)]_vars

\* the upload that the step imports is the file saved from the export of the
\* store's current, valid Positions
ReimportOfExport ==
    /\ event'.outcome = "imported"
    /\ uploaded' = saved_csv
    /\ saved_csv = df_to_csv_bytes(StoreRows)
    /\ AllValid(StoreRows)

C3_EngineOnlyOnAvailableHistory ==
    /\ \A c \in engine_calls : c.hist.avail /\ c.hist.close # <<>>
    /\ (page = "Portfólio" /\ ~rerun) =>
         /\ Len(cards) = event.rows
         /\ \A i \in 1..Len(cards) :
              IF cards[i].hist.avail
              THEN /\ cards[i].shown = "valued"
                   /\ Call("calc_metrics", cards[i].hist) \in engine_calls
                   /\ Call("auto_review_text", cards[i].hist) \in engine_calls
              ELSE cards[i].shown = "msg"
    /\ (event.op = "obter" /\ event.outcome = "no_history") =>
         engine_calls = {} /\ ~add_button

C3_Witness ==
    /\ page = "Portfólio"
    /\ ~rerun
    /\ Len(cards) = 2
    /\ cards[1].shown = "msg"
    /\ cards[2].shown = "valued"
    /\ engine_calls # {}

\* C4: every Position in the store has an uppercase ticker, a positive
\* price and a positive amount.
C4_StoredPositionsValid == AllValid(StoreRows)

C6_ZeroInputsTotal ==
    e_metrics.called =>
        /\ ~e_metrics.raised
        /\ (e_price.n = 0 =>
              /\ e_metrics.shares = FromInt(0)
              /\ e_metrics.current_value = FromInt(0)
              /\ e_metrics.profit = FromInt(-e_amount.n))
        /\ (e_amount.n = 0 => e_metrics.roi = FromInt(0))

C6_Witness ==
    /\ e_metrics.called
    /\ e_price = FromInt(0)
    /\ e_amount = FromInt(1000)
    /\ e_metrics.profit = FromInt(-1000)

\* the "stepped" table as the specification prints it
Stepped(roi) ==
    CASE GeInt(roi, 30) -> 10
      [] ~GeInt(roi, 30) /\ GeInt(roi, 15) -> 9
      [] ~GeInt(roi, 15) /\ GeInt(roi, 10) -> 8
      [] ~GeInt(roi, 10) /\ GeInt(roi, 5) -> 7
      [] ~GeInt(roi, 5) /\ GeInt(roi, 0) -> 6
      [] ~GeInt(roi, 0) /\ GeInt(roi, -5) -> 5
      [] ~GeInt(roi, -5) /\ GeInt(roi, -10) -> 4
      [] ~GeInt(roi, -10) /\ GeInt(roi, -20) -> 3
      [] OTHER -> 1

\* C7: the score of auto_review_text is the "stepped" table of roi: within
\* 1..10, never 2, non-decreasing in roi, and 30 -> 10, 29.99 -> 9,
\* -20 -> 3, -20.01 -> 1.
C7_SteppedScore ==
    e_review.called =>
        /\ e_review.score = Stepped(e_roi)
        /\ e_review.score \in 1..10
        /\ e_review.score # 2
        /\ \A r \in RoiArgs :
             /\ RLeq(e_roi, r) => e_review.score <= ScoreOf(r)
             /\ RLeq(r, e_roi) => ScoreOf(r) <= e_review.score
        /\ (e_roi = FromInt(30) => e_review.score = 10)
        /\ (e_roi = Rat(2999, 100) => e_review.score = 9)
        /\ (e_roi = FromInt(-20) => e_review.score = 3)
        /\ (e_roi = Rat(-2001, 100) => e_review.score = 1)

C7_Witness ==
    /\ e_review.called
    /\ e_roi = Rat(2999, 100)
    /\ e_review.score = 9

Rank(trend) ==
    CASE trend = "forte queda" -> 1
      [] trend = "queda" -> 2
      [] trend = "estável" -> 3
      [] trend = "alta" -> 4
      [] trend = "forte alta" -> 5

\* the period changes of all histories within the bound
PctSamples == {PeriodChange(h) : h \in Histories}

\* C8: for a history whose first close is not 0, pct is
\* (last - first)/first * 100 and the label follows the ordered thresholds
\* (> 8, > 2, < -8, < -2, otherwise stable); the label's rank never
\* decreases when pct increases; two identical non-zero closes give pct = 0
\* and "estável".
C8_TrendMonotone ==
    e_review.called =>
        /\ (e_hist[1].n # 0 =>
              /\ IsFinite(e_review.pct)
              /\ RMul(e_review.pct, e_hist[1]) =
                   RMul(RSub(e_hist[Len(e_hist)], e_hist[1]), FromInt(100))
              /\ e_review.trend =
                   (CASE GtInt(e_review.pct, 8) -> "forte alta"
                      [] ~GtInt(e_review.pct, 8) /\ GtInt(e_review.pct, 2) -> "alta"
                      [] LtInt(e_review.pct, -8) -> "forte queda"
                      [] ~LtInt(e_review.pct, -8) /\ LtInt(e_review.pct, -2) -> "queda"
                      [] OTHER -> "estável"))
        /\ \A p \in PctSamples :
             /\ RLeq(e_review.pct, p) => Rank(e_review.trend) <= Rank(TrendOf(p))
             /\ RLeq(p, e_review.pct) => Rank(TrendOf(p)) <= Rank(e_review.trend)
        /\ (Len(e_hist) = 2 /\ e_hist[1] = e_hist[2] /\ e_hist[1].n # 0) =>
             e_review.pct = FromInt(0) /\ e_review.trend = "estável"

C8_Witness ==
    /\ e_review.called
    /\ e_hist = <<FromInt(100), FromInt(104)>>
    /\ e_review.pct = FromInt(4)
    /\ e_review.trend = "alta"

\* C9: applied to a history whose first close is 0 or that has fewer than 2
\* samples, auto_review_text fails with InvalidHistoryError and yields no
\* trend label, text or score.
C9_InvalidHistoryRejected ==
    (e_review.called /\ (e_hist[1].n = 0 \/ Len(e_hist) < 2)) =>
        /\ e_review.raised = "InvalidHistoryError"
        /\ e_review.trend = ""
        /\ e_review.score = 0

\* C10: a "Remover" click that deletes removes exactly the clicked card's
\* record and keeps every other record, identical ones included, unchanged
\* and in order; a failed remote delete leaves the store unchanged.
C10_RemoveExactlyOne ==
    [][/\ (event'.op = "remover" /\ event'.outcome = "deleted") =>
            StoreRows' = RemoveAt(StoreRows, event'.idx)
       /\ (event'.op = "remover" /\ event'.outcome = "failed") =>
            StoreRows' = StoreRows]_vars

====
